---- MODULE Spec2Model ----
(***************************************************************************)
(* Model of server/src/bot.rs: the Bot controller of mk48.                 *)
(*                                                                         *)
(* The state is one Bot (its personality and spawned_at_least_once), the   *)
(* snapshot the world layer hands to Bot::update, and what the last call   *)
(* of update computed and returned.  Vectors are pairs of integers, an     *)
(* Option is a sequence of length 0 (None) or 1 (Some), an Angle is a      *)
(* 16-bit signed integer with wrapping arithmetic, and the weighted sum    *)
(* `movement` is kept symbolically as the sequence of its terms.           *)
(***************************************************************************)
EXTENDS Integers, Sequences, FiniteSets, TLC

VARIABLES
    spawned_at_least_once,  \* Bot.spawned_at_least_once
    aim_bias,               \* Bot.aim_bias
    level_ambition,         \* Bot.level_ambition
    contacts,               \* the snapshot: update.contacts(), in order
    score,                  \* update.score() of the last call
    pc,                     \* "sensing": snapshot being built; "returned": update returned
    ret,                    \* the commands update returned
    quit,                   \* the boolean update returned
    rolled,                 \* outcome of rng.gen_bool(self.aggression) in the last call
    self_boat,              \* local boat: the contact taken as the own vessel, if any
    closest_enemy,          \* local closest_enemy at the end of the contact scan
    best_firing_solution,   \* local best_firing_solution after targeting
    movement,               \* local movement after the contact scan
    repelled,               \* indices of contacts that reached the generic repel call
    seen_alive              \* history: some call of update took the alive branch

vars == <<spawned_at_least_once, aim_bias, level_ambition, contacts, score, pc,
          ret, quit, rolled, self_boat, closest_enemy, best_firing_solution, movement,
          repelled, seen_alive>>

-----------------------------------------------------------------------------
(* Bounds *)

\* Most contacts in one snapshot (the own vessel included).
MaxContacts == 3

-----------------------------------------------------------------------------
(* Option, Vec2, Angle *)

None == <<>>
Some(x) == <<x>>
IsSome(o) == Len(o) = 1
Unwrap(o) == o[1]

VecAdd(a, b) == <<a[1] + b[1], a[2] + b[2]>>
VecSub(a, b) == <<a[1] - b[1], a[2] - b[2]>>
VecNeg(a) == <<0 - a[1], 0 - a[2]>>
LengthSquared(a) == a[1] * a[1] + a[2] * a[2]

\* Angle::MAX, the largest value of the 16-bit angle representation.
AngleMAX == 32767
AngleMIN == 0 - AngleMAX - 1
AngleZERO == 0

\* Two's-complement wrap of an integer to 16 bits.
Wrap16(x) == ((x + AngleMAX + 1) % (2 * (AngleMAX + 1))) - (AngleMAX + 1)

\* Angle - Angle (wrapping).
AngleSub(a, b) == Wrap16(a - b)
\* Angle + Angle (wrapping).
AngleAdd(a, b) == Wrap16(a + b)
\* Angle::abs: the negation of MIN would overflow and saturates to MAX.
AngleAbs(a) == IF a = AngleMIN THEN AngleMAX ELSE IF a < 0 THEN 0 - a ELSE a

\* Angle::from_degrees(60.0): 60/180 of Angle::MAX, truncated.
SixtyDegrees == 10922

\* Angle::from(Vec2) = from_radians(atan2(y, x)) on the eight compass
\* directions the model places contacts on (radians * MAX / PI, truncated).
AngleFromVec(v) ==
    LET x == v[1]  y == v[2] IN
    CASE x > 0 /\ y = 0 -> 0
      [] x > 0 /\ y = x -> 8191
      [] x = 0 /\ y > 0 -> 16383
      [] x < 0 /\ y = 0 - x -> 24575
      [] x < 0 /\ y = 0 -> 32767
      [] x < 0 /\ y = x -> 0 - 24575
      [] x = 0 /\ y < 0 -> 0 - 16383
      [] x > 0 /\ y = 0 - x -> 0 - 8191
      [] OTHER -> 0

-----------------------------------------------------------------------------
(* Static entity data (common::entity), an opaque read-only table.         *)

BoatTypes == {"Skiff", "Gunboat", "Rammer", "Frigate", "Cruiser"}

Armament(t, turret, vertical, angle) ==
    [entity_type |-> t, turret |-> turret, vertical |-> vertical, angle |-> angle]

EntityData(t) ==
    CASE t = "Skiff" ->
           [kind |-> "Boat", sub_kind |-> "Pirate", level |-> 1,
            radius |-> 1, max_health |-> 20,
            armaments |-> <<>>, turrets |-> <<>>]
      [] t = "Gunboat" ->
           [kind |-> "Boat", sub_kind |-> "Destroyer", level |-> 1,
            radius |-> 2, max_health |-> 30,
            armaments |-> << Armament("Mark12", Some(1), FALSE, 0),
                             Armament("Mark18", None, FALSE, 0),
                             Armament("Seacat", None, TRUE, 0) >>,
            turrets |-> << [azimuth |-> 16384] >>]
      [] t = "Rammer" ->
           [kind |-> "Boat", sub_kind |-> "Ram", level |-> 2,
            radius |-> 2, max_health |-> 30,
            armaments |-> << Armament("Sonobuoy", None, FALSE, 0),
                             Armament("Seahawk", None, FALSE, 16384) >>,
            turrets |-> <<>>]
      [] t = "Frigate" ->
           [kind |-> "Boat", sub_kind |-> "Destroyer", level |-> 2,
            radius |-> 2, max_health |-> 40,
            armaments |-> <<>>, turrets |-> <<>>]
      [] t = "Cruiser" ->
           [kind |-> "Boat", sub_kind |-> "Cruiser", level |-> 3,
            radius |-> 3, max_health |-> 60,
            armaments |-> <<>>, turrets |-> <<>>]
      [] t = "Mark12" ->
           [kind |-> "Weapon", sub_kind |-> "Shell", level |-> 0,
            radius |-> 1, max_health |-> 1,
            armaments |-> <<>>, turrets |-> <<>>]
      [] t = "Mark18" ->
           [kind |-> "Weapon", sub_kind |-> "Torpedo", level |-> 0,
            radius |-> 1, max_health |-> 1,
            armaments |-> <<>>, turrets |-> <<>>]
      [] t = "Seacat" ->
           [kind |-> "Weapon", sub_kind |-> "Sam", level |-> 0,
            radius |-> 1, max_health |-> 1,
            armaments |-> <<>>, turrets |-> <<>>]
      [] t = "Harpoon" ->
           [kind |-> "Weapon", sub_kind |-> "Missile", level |-> 0,
            radius |-> 1, max_health |-> 1,
            armaments |-> <<>>, turrets |-> <<>>]
      [] t = "Seahawk" ->
           [kind |-> "Aircraft", sub_kind |-> "Heli", level |-> 0,
            radius |-> 1, max_health |-> 1,
            armaments |-> <<>>, turrets |-> <<>>]
      [] t = "Sonobuoy" ->
           [kind |-> "Decoy", sub_kind |-> "Sonar", level |-> 0,
            radius |-> 1, max_health |-> 1,
            armaments |-> <<>>, turrets |-> <<>>]
      [] t = "Crate" ->
           [kind |-> "Collectible", sub_kind |-> "Score", level |-> 0,
            radius |-> 1, max_health |-> 1,
            armaments |-> <<>>, turrets |-> <<>>]
      [] t = "OilPlatform" ->
           [kind |-> "Obstacle", sub_kind |-> "Structure", level |-> 0,
            radius |-> 1, max_health |-> 1,
            armaments |-> <<>>, turrets |-> <<>>]

\* EntityData::MAX_BOAT_LEVEL: the highest level of a boat in the table.
MAX_BOAT_LEVEL == 3

\* Turret::within_azimuth(curr): the turret's current angle is inside its arc.
within_azimuth(turret, curr) == AngleAbs(curr) <= turret.azimuth

\* EntityData::armament_transform composed with the boat's transform: the
\* armaments are mounted at the centre of the hull, so only the facing changes.
ArmamentTransform(boat, data, i) ==
    LET armament == data.armaments[i]
        turret_angle == IF IsSome(armament.turret)
                        THEN boat.turrets[Unwrap(armament.turret)]
                        ELSE AngleZERO
    IN [position |-> boat.position,
        direction |-> AngleAdd(boat.direction, AngleAdd(turret_angle, armament.angle))]

\* EntityType::upgrade_options(score, bot): the boats one level up that the
\* score affords.
LevelToScore(level) == (level - 1) * 10
upgrade_options(boat_type, sc) ==
    {t \in BoatTypes : /\ EntityData(t).level = EntityData(boat_type).level + 1
                       /\ sc >= LevelToScore(EntityData(t).level)}

\* EntityType::spawn_options(bot): the boats of level 1.
spawn_options == {t \in BoatTypes : EntityData(t).level = 1}

-----------------------------------------------------------------------------
(* The snapshot (CompleteTrait) and its contacts (ContactTrait)            *)

\* update.player_id(): the bot's own player.
Me == "me"
Foe == "foe"

Contact(id, player_id, entity_type, position, altitude, damage, reloads, turrets) ==
    [id |-> id, player_id |-> player_id, entity_type |-> entity_type,
     position |-> position, direction |-> AngleZERO, altitude |-> altitude,
     damage |-> damage, reloads |-> reloads, turrets |-> turrets]

\* Where the bot's own boat is.
Home == <<2, 1>>

ReloadTimes == {0, 5}

\* The own boat as the world layer can report it: every combination of
\* reload timers and every turret orientation of the table's armed boats.
OwnBoats ==
    {Contact(1, Some(Me), Some("Gunboat"), Home, "surface", 0, <<r1, r2, r3>>, <<t>>) :
        r1 \in ReloadTimes, r2 \in ReloadTimes, r3 \in ReloadTimes,
        t \in {0, 16384, AngleMIN}}
    \cup {Contact(1, Some(Me), Some("Rammer"), Home, "surface", 20, <<0, r2>>, <<>>) :
            r2 \in ReloadTimes}

\* The own boat reported a second time.
OwnBoatAgain == Contact(1, Some(Me), Some("Gunboat"), Home, "surface", 0, <<0, 0, 0>>, <<0>>)

\* Everything else the sensors can report.
Sensed ==
    { Contact(2, Some(Foe), Some("Gunboat"), VecAdd(Home, <<0, 2>>), "surface", 0, <<0, 0, 0>>, <<0>>),
      Contact(3, Some(Foe), Some("Gunboat"), VecAdd(Home, <<1, 0>>), "submerged", 0, <<0, 0, 0>>, <<0>>),
      Contact(4, Some(Foe), Some("Rammer"), VecAdd(Home, <<-1, 0>>), "surface", 0, <<0, 0>>, <<>>),
      Contact(5, Some(Foe), Some("Seahawk"), VecAdd(Home, <<0, -1>>), "airborne", 0, <<>>, <<>>),
      Contact(6, Some(Foe), Some("Harpoon"), VecAdd(Home, <<2, 0>>), "surface", 0, <<>>, <<>>),
      Contact(7, Some(Foe), Some("Mark12"), VecAdd(Home, <<1, 0>>), "surface", 0, <<>>, <<>>),
      Contact(8, None, Some("OilPlatform"), VecAdd(Home, <<0, 1>>), "surface", 0, <<>>, <<>>),
      Contact(9, None, Some("Crate"), VecAdd(Home, <<1, 1>>), "surface", 0, <<>>, <<>>),
      Contact(10, Some(Foe), None, VecAdd(Home, <<1, 0>>), "surface", 0, <<>>, <<>>),
      Contact(11, Some(Me), Some("Skiff"), VecAdd(Home, <<0, 2>>), "surface", 0, <<>>, <<>>),
      Contact(12, Some(Me), Some("Harpoon"), VecAdd(Home, <<1, 0>>), "airborne", 0, <<>>, <<>>),
      OwnBoatAgain }

Scores == {0, 10}

\* ContactTrait::is_boat
is_boat(c) == IsSome(c.entity_type) /\ EntityData(Unwrap(c.entity_type)).kind = "Boat"
\* Altitude::is_airborne, Altitude::is_submerged
is_airborne(c) == c.altitude = "airborne"
is_submerged(c) == c.altitude = "submerged"

-----------------------------------------------------------------------------
(* Bot::update, alive branch: the weighted sums                            *)

Term(kind, delta, param) == [kind |-> kind, delta |-> delta, param |-> param]

\* attract: *weighted_sum += target_delta / (1.0 + distance_squared)
attract(weighted_sum, target_delta, distance_squared) ==
    Append(weighted_sum, Term("over", target_delta, 1 + distance_squared))

\* repel: attract(weighted_sum, -target_delta, distance_squared)
repel(weighted_sum, target_delta, distance_squared) ==
    attract(weighted_sum, VecNeg(target_delta), distance_squared)

\* spring: *weighted_sum = target_delta * displacement / (displacement^2 + 1),
\* an assignment: whatever was summed before is dropped.
spring(weighted_sum, target_delta, desired_distance) ==
    << Term("spring", target_delta, desired_distance) >>

\* The terrain loop: SAMPLES points on a ring around the boat, each repelling
\* if is_land_or_border holds there.  Terrain and world radius are opaque to
\* the model, so what the loop leaves in movement is kept as one symbolic
\* term; the scan adds to it and a spring replaces it.
SAMPLES == 10
TerrainRepulsion == << Term("terrain", <<0, 0>>, SAMPLES) >>

-----------------------------------------------------------------------------
(* Bot::update, alive branch: the contact scan                             *)

\* The first contact is taken as the own boat if it is a boat of the player.
IsOwnBoat(c, player_id) == is_boat(c) /\ c.player_id = Some(player_id)

\* GenericRepulsion with the exception read off the contact's sub-kind.
GenericRepulsionByContact(friendly, contact_data, data) ==
    /\ (~friendly \/ contact_data.kind = "Boat")
    /\ ~(~friendly /\ contact_data.kind = "Boat" /\ contact_data.sub_kind = "Ram")

\* The test that guards the generic repel call.
GenericRepulsion(friendly, contact_data, data) ==
    /\ (~friendly \/ contact_data.kind = "Boat")
    /\ ~(~friendly /\ contact_data.kind = "Boat" /\ data.sub_kind = "Ram")

\* The match on the kind of a contact that is not friendly: whether it is
\* tracked as an enemy.
TrackedKind(contact_data) ==
    CASE contact_data.kind \in {"Boat", "Aircraft"} -> TRUE
      [] contact_data.kind = "Weapon" -> contact_data.sub_kind = "Missile"
      [] OTHER -> FALSE

\* Closer with <= for <: the last of the equally near contacts wins.
CloserOrEqual(existing, contact, distance_squared) ==
    IF IsSome(existing)
    THEN IF distance_squared <= Unwrap(existing).distance_squared
         THEN Some([contact |-> contact, distance_squared |-> distance_squared])
         ELSE existing
    ELSE Some([contact |-> contact, distance_squared |-> distance_squared])

\* closest_enemy after a tracked contact at distance_squared is seen.
Closer(existing, contact, distance_squared) ==
    IF IsSome(existing)
    THEN IF distance_squared < Unwrap(existing).distance_squared
         THEN Some([contact |-> contact, distance_squared |-> distance_squared])
         ELSE existing
    ELSE Some([contact |-> contact, distance_squared |-> distance_squared])

\* One iteration of "for contact in contacts", on the k-th contact.
ScanContact(acc, k, contact, boat, data, player_id) ==
    IF contact.id = boat.id
    THEN acc
    ELSE IF ~IsSome(contact.entity_type)
    THEN acc
    ELSE
      LET contact_data == EntityData(Unwrap(contact.entity_type))
          delta_position == VecSub(contact.position, boat.position)
          distance_squared == LengthSquared(delta_position)
          friendly == contact.player_id = Some(player_id)
          generic == /\ contact_data.kind # "Collectible"
                     /\ GenericRepulsion(friendly, contact_data, data)
          m1 == IF contact_data.kind = "Collectible"
                THEN attract(acc.movement, delta_position, distance_squared)
                ELSE IF generic
                THEN repel(acc.movement, delta_position, distance_squared)
                ELSE acc.movement
          m2 == IF friendly
                THEN IF contact_data.kind = "Boat"
                     THEN spring(m1, delta_position, data.radius + contact_data.radius)
                     ELSE m1
                ELSE IF contact_data.kind = "Obstacle"
                     THEN repel(m1, delta_position, distance_squared)
                     ELSE m1
          tracked == ~friendly /\ TrackedKind(contact_data)
      IN [movement |-> m2,
          closest_enemy |-> IF tracked
                            THEN Closer(acc.closest_enemy, contact, distance_squared)
                            ELSE acc.closest_enemy,
          repelled |-> IF generic THEN acc.repelled \cup {k} ELSE acc.repelled]

\* The loop over the contacts that follow the first, from the k-th on.
RECURSIVE Scan(_, _, _, _, _, _)
Scan(acc, k, cs, boat, data, player_id) ==
    IF k > Len(cs)
    THEN acc
    ELSE Scan(ScanContact(acc, k, cs[k], boat, data, player_id),
              k + 1, cs, boat, data, player_id)

-----------------------------------------------------------------------------
(* Bot::update, alive branch: targeting                                    *)

\* Reloaded without the test.
ReloadedAlways(reloads, i) == TRUE

\* reloads[i] > Ticks::ZERO skips the armament.
Reloaded(reloads, i) == ~(reloads[i] > 0)

\* Only armaments that are weapons or aircraft are fired.
Launchable(armament_entity_data) ==
    armament_entity_data.kind \in {"Weapon", "Aircraft"}

\* Whether the armament is of use against the enemy.
Relevant(enemy, enemy_data, armament_entity_data) ==
    CASE enemy_data.kind \in {"Aircraft", "Weapon"} ->
           IF is_airborne(enemy)
           THEN armament_entity_data.sub_kind = "Sam"
           ELSE FALSE
      [] enemy_data.kind = "Boat" ->
           IF is_submerged(enemy)
           THEN armament_entity_data.sub_kind \in
                    {"Torpedo", "Plane", "Heli", "DepthCharge"}
           ELSE armament_entity_data.sub_kind \in
                    {"Torpedo", "Plane", "Heli", "DepthCharge",
                     "Rocket", "Missile", "Shell"}
      [] OTHER -> FALSE

\* TurretAllows without the test.
TurretAlwaysAllows(boat, data, armament) == TRUE

\* A turret-mounted armament is skipped when the test of its turret fails.
TurretAllows(boat, data, armament) ==
    IF IsSome(armament.turret)
    THEN within_azimuth(data.turrets[Unwrap(armament.turret)],
                        boat.turrets[Unwrap(armament.turret)])
    ELSE TRUE

\* angle_diff of armament i against the enemy.
AngleDiff(boat, data, i, enemy) ==
    LET armament == data.armaments[i]
        transform == ArmamentTransform(boat, data, i)
        angle == AngleFromVec(VecSub(enemy.position, transform.position))
    IN IF armament.vertical \/ EntityData(armament.entity_type).kind = "Aircraft"
       THEN AngleZERO
       ELSE AngleAbs(AngleSub(angle, transform.direction))

\* Whether firing_solution replaces best_firing_solution.
Better(firing_solution, best) ==
    firing_solution.angle_diff <
        (IF IsSome(best) THEN Unwrap(best).angle_diff ELSE AngleMAX)

\* Whether the loop body reaches the comparison for armament i.
Qualifies(boat, data, i, enemy) ==
    /\ Reloaded(boat.reloads, i)
    /\ Launchable(EntityData(data.armaments[i].entity_type))
    /\ Relevant(enemy, EntityData(Unwrap(enemy.entity_type)),
                EntityData(data.armaments[i].entity_type))
    /\ TurretAllows(boat, data, data.armaments[i])

\* One iteration of the loop over the armaments; the index is the source's,
\* counted from 0.
ConsiderArmament(best, i, boat, data, enemy) ==
    IF ~Qualifies(boat, data, i, enemy)
    THEN best
    ELSE LET firing_solution == [index |-> i - 1,
                                 position |-> enemy.position,
                                 angle_diff |-> AngleDiff(boat, data, i, enemy)]
         IN IF Better(firing_solution, best) THEN Some(firing_solution) ELSE best

RECURSIVE Armaments(_, _, _, _, _)
Armaments(best, i, boat, data, enemy) ==
    IF i > Len(data.armaments)
    THEN best
    ELSE Armaments(ConsiderArmament(best, i, boat, data, enemy),
                   i + 1, boat, data, enemy)

\* best_firing_solution for the closest enemy, if there is one.
Targeting(boat, data, closest) ==
    IF IsSome(closest)
    THEN Armaments(None, 1, boat, data, Unwrap(closest).contact)
    ELSE None

-----------------------------------------------------------------------------
(* Bot::update: the commands                                               *)

\* Control: guidance.direction_target is Angle::from(movement), kept as the
\* symbolic movement; velocity_target (data.speed * 0.8) and altitude_target
\* (None for every boat of the table, which has no submarine) are left out.
Control(direction_target, aim_target, active) ==
    [cmd |-> "Control", direction_target |-> direction_target,
     aim_target |-> aim_target, active |-> active]
Fire(index, position_target) ==
    [cmd |-> "Fire", index |-> index, position_target |-> position_target]
Upgrade(entity_type) == [cmd |-> "Upgrade", entity_type |-> entity_type]
Spawn(entity_type) == [cmd |-> "Spawn", entity_type |-> entity_type]

\* AimTarget without the bias.
AimTargetUnbiased(best, bias) ==
    IF IsSome(best) THEN Some(Unwrap(best).position) ELSE None

\* aim_target of the Control command.
AimTarget(best, bias) ==
    IF IsSome(best) THEN Some(VecAdd(Unwrap(best).position, bias)) ELSE None

\* active of the Control command: health_percent >= 0.5, where
\* health_percent = 1 - damage / max_health.
Active(own, data) == 2 * own.damage <= data.max_health

\* The Fire command for a firing solution.
FireCommand(firing_solution) ==
    Fire(firing_solution.index, firing_solution.position)

\* SecondCommands with the upgrade as the alternative to any missing Fire.
SecondCommandsUpgradeOtherwise(roll, best, boat_type, data, sc, ambition) ==
    IF roll
    THEN IF IsSome(best) /\ Unwrap(best).angle_diff < SixtyDegrees
         THEN { << FireCommand(Unwrap(best)) >> }
         ELSE IF data.level < ambition /\ upgrade_options(boat_type, sc) # {}
              THEN { << Upgrade(t) >> : t \in upgrade_options(boat_type, sc) }
              ELSE { <<>> }
    ELSE { <<>> }

\* SecondCommands without the else between firing and upgrading.
SecondCommandsFallThrough(roll, best, boat_type, data, sc, ambition) ==
    IF roll
    THEN { fire \o up :
             fire \in (IF IsSome(best) /\ Unwrap(best).angle_diff < SixtyDegrees
                       THEN { << FireCommand(Unwrap(best)) >> } ELSE { <<>> }),
             up \in (IF data.level < ambition /\ upgrade_options(boat_type, sc) # {}
                     THEN { << Upgrade(t) >> : t \in upgrade_options(boat_type, sc) }
                     ELSE { <<>> }) }
    ELSE { <<>> }

\* What may follow the Control command, as sequences of commands: one for
\* each outcome of choose(&mut rng).
SecondCommands(roll, best, boat_type, data, sc, ambition) ==
    IF roll
    THEN IF IsSome(best)
         THEN IF Unwrap(best).angle_diff < SixtyDegrees
              THEN { << FireCommand(Unwrap(best)) >> }
              ELSE { <<>> }
         ELSE IF data.level < ambition
              THEN IF upgrade_options(boat_type, sc) = {}
                   THEN { <<>> }
                   ELSE { << Upgrade(t) >> : t \in upgrade_options(boat_type, sc) }
              ELSE { <<>> }
    ELSE { <<>> }

\* FirstContact as a search: the first contact anywhere that is the own boat.
FirstOwnContact(cs, player_id) ==
    LET own == {k \in 1 .. Len(cs) : IsOwnBoat(cs[k], player_id)}
    IN IF own = {} THEN None
       ELSE Some(cs[CHOOSE k \in own : \A j \in own : k <= j])

\* The first contact of the snapshot, filtered: Some(boat) if it is the own boat.
FirstContact(cs, player_id) ==
    IF Len(cs) > 0 /\ IsOwnBoat(cs[1], player_id) THEN Some(cs[1]) ELSE None

\* RageQuit without the test of spawned_at_least_once.
RageQuitAnytime(spawned, rage) == rage

\* The condition of the rage-quit branch.
RageQuit(spawned, rage) == spawned /\ rage

-----------------------------------------------------------------------------
(* The state machine                                                       *)

\* gen_radius(&mut rng, 10.0): an offset inside the disk of radius 10.
AimBiases == { <<3, -2>> }

\* Bot::new
Init ==
    /\ spawned_at_least_once = FALSE
    /\ aim_bias \in AimBiases
    /\ level_ambition \in 1 .. (MAX_BOAT_LEVEL - 1)
    /\ contacts = <<>>
    /\ score = 0
    /\ pc = "sensing"
    /\ ret = <<>>
    /\ quit = FALSE
    /\ rolled = FALSE
    /\ self_boat = None
    /\ closest_enemy = None
    /\ best_firing_solution = None
    /\ movement = <<>>
    /\ repelled = {}
    /\ seen_alive = FALSE

\* The world layer adds a contact to the snapshot of this tick.  The own boat,
\* when alive, is reported first.
Sense ==
    /\ pc = "sensing"
    /\ Len(contacts) < MaxContacts
    /\ \E c \in (IF contacts = <<>> THEN OwnBoats \cup Sensed ELSE Sensed) :
          contacts' = Append(contacts, c)
    /\ UNCHANGED <<spawned_at_least_once, aim_bias, level_ambition, score, pc,
                   ret, quit, rolled, self_boat, closest_enemy,
                   best_firing_solution, movement, repelled, seen_alive>>

\* Bot::update when the first contact is the own boat.
UpdateAlive ==
    /\ pc = "sensing"
    /\ IsSome(FirstContact(contacts, Me))
    /\ \E sc \in Scores, roll \in BOOLEAN :
         LET own == Unwrap(FirstContact(contacts, Me))
             boat_type == Unwrap(own.entity_type)
             data == EntityData(boat_type)
             scan == Scan([movement |-> TerrainRepulsion, closest_enemy |-> None,
                           repelled |-> {}],
                          2, contacts, own, data, Me)
             best == Targeting(own, data, scan.closest_enemy)
             control == Control(scan.movement, AimTarget(best, aim_bias),
                                Active(own, data))
         IN /\ \E second \in SecondCommands(roll, best, boat_type, data, sc,
                                             level_ambition) :
                 ret' = << control >> \o second
            /\ spawned_at_least_once' = TRUE
            /\ score' = sc
            /\ rolled' = roll
            /\ self_boat' = Some(own)
            /\ closest_enemy' = scan.closest_enemy
            /\ best_firing_solution' = best
            /\ movement' = scan.movement
            /\ repelled' = scan.repelled
    /\ seen_alive' = TRUE
    /\ quit' = FALSE
    /\ pc' = "returned"
    /\ UNCHANGED <<aim_bias, level_ambition, contacts>>

\* Bot::update when there is no own boat and the bot rage-quits.
UpdateQuit ==
    /\ pc = "sensing"
    /\ ~IsSome(FirstContact(contacts, Me))
    /\ \E rage \in BOOLEAN : RageQuit(spawned_at_least_once, rage)
    /\ quit' = TRUE
    /\ ret' = <<>>
    /\ pc' = "returned"
    /\ UNCHANGED <<score, spawned_at_least_once, aim_bias, level_ambition, contacts,
                   rolled, self_boat, closest_enemy, best_firing_solution,
                   movement, repelled, seen_alive>>

\* Bot::update when there is no own boat and the bot respawns.
UpdateSpawn ==
    /\ pc = "sensing"
    /\ ~IsSome(FirstContact(contacts, Me))
    /\ \E rage \in BOOLEAN : ~RageQuit(spawned_at_least_once, rage)
    /\ \E t \in spawn_options : ret' = << Spawn(t) >>
    /\ quit' = FALSE
    /\ pc' = "returned"
    /\ UNCHANGED <<score, spawned_at_least_once, aim_bias, level_ambition, contacts,
                   rolled, self_boat, closest_enemy, best_firing_solution,
                   movement, repelled, seen_alive>>

\* The caller has executed the commands; the next tick's snapshot is built
\* afresh.  A bot that quit is dropped and never updated again.
NextTick ==
    /\ pc = "returned"
    /\ ~quit
    /\ pc' = "sensing"
    /\ contacts' = <<>>
    /\ score' = 0
    /\ ret' = <<>>
    /\ rolled' = FALSE
    /\ self_boat' = None
    /\ closest_enemy' = None
    /\ best_firing_solution' = None
    /\ movement' = <<>>
    /\ repelled' = {}
    /\ UNCHANGED <<spawned_at_least_once, aim_bias, level_ambition, quit,
                   seen_alive>>

Next == Sense \/ UpdateAlive \/ UpdateQuit \/ UpdateSpawn \/ NextTick

Spec == Init /\ [][Next]_vars

-----------------------------------------------------------------------------
(* Properties                                                              *)

Returned == pc = "returned"
AliveCall == Returned /\ IsSome(self_boat)
Commands(kind) == {k \in 1 .. Len(ret) : ret[k].cmd = kind}

AliveOutcome ==
    /\ Len(ret) \in {1, 2}
    /\ ret[1].cmd = "Control"
    /\ Len(ret) = 2 => ret[2].cmd \in {"Fire", "Upgrade"}
    /\ ~quit
QuitOutcome == quit /\ ret = <<>>
SpawnOutcome == Len(ret) = 1 /\ ret[1].cmd = "Spawn" /\ ~quit

\* C1: every call of update returns at most two commands and exactly one of
\* three outcomes: a Control optionally followed by one Fire or one Upgrade
\* with quit false; quit true with no command; exactly one Spawn with quit
\* false.  Spawn is never mixed with other commands and quit never comes with
\* a command.
C1_UpdateOutcomes ==
    Returned =>
      /\ Len(ret) <= 2
      /\ Cardinality({o \in {"alive", "quit", "spawn"} :
                        \/ o = "alive" /\ AliveOutcome
                        \/ o = "quit" /\ QuitOutcome
                        \/ o = "spawn" /\ SpawnOutcome}) = 1
      /\ AliveOutcome <=> IsSome(self_boat)
      /\ Commands("Spawn") # {} => Len(ret) = 1
      /\ quit => ret = <<>>

\* A call that returned a Control followed by a Fire.
C1_Witness ==
    Returned /\ Len(ret) = 2 /\ ret[1].cmd = "Control" /\ ret[2].cmd = "Fire"

OwnVesselAbsent == \A k \in 1 .. Len(contacts) : ~IsOwnBoat(contacts[k], Me)
UpdateCall == pc = "sensing" /\ pc' = "returned"

\* C2: spawned_at_least_once only ever goes from false to true; every call
\* that takes the own vessel as alive sets it; while it is false a call with
\* the own vessel absent returns exactly one Spawn and quit false; and quit is
\* only ever returned after some earlier call saw the vessel alive.
C2_SpawnedAtLeastOnce ==
    /\ [][spawned_at_least_once => spawned_at_least_once']_vars
    /\ [][(UpdateCall /\ contacts # <<>> /\ IsOwnBoat(contacts[1], Me))
            => spawned_at_least_once']_vars
    /\ [][(UpdateCall /\ ~spawned_at_least_once /\ OwnVesselAbsent)
            => (Len(ret') = 1 /\ ret'[1].cmd = "Spawn" /\ ~quit')]_vars
    /\ [](quit => seen_alive)

\* A rage-quit, returned by a bot that was alive before.
C2_Witness == Returned /\ quit /\ spawned_at_least_once /\ seen_alive

OwnContacts == {k \in 1 .. Len(contacts) : IsOwnBoat(contacts[k], Me)}

\* C3 as claimed: whenever some contact of the sequence is a boat of the
\* player, update emits a Control and takes the first such contact as self,
\* wherever it is; quit and spawn happen only when no contact matches.
C3_AnyPosition ==
    Returned =>
      IF OwnContacts # {}
      THEN /\ Commands("Control") # {}
           /\ self_boat = Some(contacts[CHOOSE k \in OwnContacts :
                                          \A j \in OwnContacts : k <= j])
      ELSE QuitOutcome \/ SpawnOutcome

\* C3 as amended: update takes the alive branch exactly when the FIRST
\* contact is a boat of the player, and that contact is self; otherwise it
\* takes the quit or spawn branch, even if a later contact matches.
C3_FirstContactOnly ==
    Returned =>
      IF contacts # <<>> /\ IsOwnBoat(contacts[1], Me)
      THEN /\ AliveOutcome
           /\ self_boat = Some(contacts[1])
      ELSE /\ self_boat = None
           /\ QuitOutcome \/ SpawnOutcome

\* The own boat is reported, but not first: update spawns.
C3_Witness ==
    /\ Returned
    /\ OwnContacts # {}
    /\ 1 \notin OwnContacts
    /\ SpawnOutcome

\* What the claims below read off the last call.
Own == Unwrap(self_boat)
OwnData == EntityData(Unwrap(Own.entity_type))
Enemy == Unwrap(closest_enemy).contact
Best == Unwrap(best_firing_solution)
BestArmament == OwnData.armaments[Best.index + 1]
Fired == Len(ret) = 2 /\ ret[2].cmd = "Fire"
Upgraded == Len(ret) = 2 /\ ret[2].cmd = "Upgrade"

\* C4 as claimed: the Fire command targets the aim target of the Control of
\* the same call, the nearest hostile's position offset by aim_bias.
C4_FireAtAimTarget ==
    (AliveCall /\ Fired) =>
      /\ IsSome(ret[1].aim_target)
      /\ ret[2].position_target = Unwrap(ret[1].aim_target)
      /\ ret[2].position_target = VecAdd(Enemy.position, aim_bias)

\* C4 as amended: the Fire command targets the nearest hostile's position
\* itself; only the aim target of the Control is that position offset by
\* aim_bias.
C4_FireAtHostile ==
    (AliveCall /\ Fired) =>
      /\ IsSome(closest_enemy)
      /\ ret[2].position_target = Enemy.position
      /\ ret[1].aim_target = Some(VecAdd(Enemy.position, aim_bias))

\* A Fire by a bot whose aim_bias is not zero.
C4_Witness == AliveCall /\ Fired /\ aim_bias # <<0, 0>>

\* The bearing of the nearest hostile, relative to the vessel.
HostileBearing ==
    AngleSub(AngleFromVec(VecSub(Enemy.position, Own.position)), Own.direction)

\* C5 as claimed: a turret-mounted armament is the firing solution only if
\* the nearest hostile's bearing relative to the vessel is inside the arc of
\* its turret.
C5_HostileInArc ==
    (AliveCall /\ IsSome(best_firing_solution) /\ IsSome(BestArmament.turret)) =>
      within_azimuth(OwnData.turrets[Unwrap(BestArmament.turret)], HostileBearing)

\* C5 as amended: a turret-mounted armament is the firing solution only if
\* the current orientation of its turret, as the snapshot reports it, is
\* inside the arc of the turret.
C5_TurretInArc ==
    (AliveCall /\ IsSome(best_firing_solution) /\ IsSome(BestArmament.turret)) =>
      within_azimuth(OwnData.turrets[Unwrap(BestArmament.turret)],
                     Own.turrets[Unwrap(BestArmament.turret)])

\* A reloaded, relevant turret-mounted armament is passed over because its
\* turret is turned out of its arc.
C5_Witness ==
    /\ AliveCall
    /\ IsSome(closest_enemy)
    /\ \E i \in 1 .. Len(OwnData.armaments) :
         LET a == OwnData.armaments[i] IN
         /\ IsSome(a.turret)
         /\ Own.reloads[i] = 0
         /\ Relevant(Enemy, EntityData(Unwrap(Enemy.entity_type)),
                     EntityData(a.entity_type))
         /\ ~within_azimuth(OwnData.turrets[Unwrap(a.turret)],
                            Own.turrets[Unwrap(a.turret)])
         /\ (IsSome(best_firing_solution) => Best.index + 1 # i)

\* C6: the firing solution is never an armament whose reload timer is not
\* zero; a Fire names the firing solution, whose reload timer is zero in
\* the snapshot, and is emitted only if its deviation is under 60 degrees.
C6_ReloadedOnly ==
    AliveCall =>
      /\ IsSome(best_firing_solution) => Own.reloads[Best.index + 1] = 0
      /\ Fired =>
           /\ IsSome(best_firing_solution)
           /\ ret[2].index = Best.index
           /\ Own.reloads[ret[2].index + 1] = 0
           /\ Best.angle_diff < SixtyDegrees

\* A Fire of an armament that follows one still reloading.
C6_Witness ==
    /\ AliveCall
    /\ Fired
    /\ \E j \in 1 .. Len(Own.reloads) : j < ret[2].index + 1 /\ Own.reloads[j] > 0

\* The armaments that qualify against the nearest hostile.
Qualifying ==
    IF IsSome(closest_enemy)
    THEN {i \in 1 .. Len(OwnData.armaments) :
            /\ Own.reloads[i] = 0
            /\ EntityData(OwnData.armaments[i].entity_type).kind
                   \in {"Weapon", "Aircraft"}
            /\ Relevant(Enemy, EntityData(Unwrap(Enemy.entity_type)),
                        EntityData(OwnData.armaments[i].entity_type))
            /\ IsSome(OwnData.armaments[i].turret) =>
                 within_azimuth(OwnData.turrets[Unwrap(OwnData.armaments[i].turret)],
                                Own.turrets[Unwrap(OwnData.armaments[i].turret)])}
    ELSE {}
Deviation(i) == AngleDiff(Own, OwnData, i, Enemy)
LowestMinimum(Q) ==
    CHOOSE i \in Q : \A j \in Q :
        Deviation(i) < Deviation(j) \/ (Deviation(i) = Deviation(j) /\ i <= j)

\* C7: when a nearest hostile exists and some armament qualifies, there is a
\* firing solution and it is the lowest index among the qualifying armaments
\* of least deviation; otherwise there is no firing solution.
C7_LowestMinimumDeviation ==
    AliveCall =>
      IF Qualifying = {}
      THEN best_firing_solution = None
      ELSE /\ IsSome(best_firing_solution)
           /\ Best.index + 1 = LowestMinimum(Qualifying)
           /\ Best.angle_diff = Deviation(LowestMinimum(Qualifying))

\* C7 where the code keeps it: the same, for the qualifying armaments whose
\* deviation is below Angle::MAX.
C7_BelowMax ==
    AliveCall =>
      LET Q == {i \in Qualifying : Deviation(i) < AngleMAX} IN
      IF Q = {}
      THEN best_firing_solution = None
      ELSE /\ IsSome(best_firing_solution)
           /\ Best.index + 1 = LowestMinimum(Q)

Eligible == upgrade_options(Unwrap(Own.entity_type), score)

\* C8 as claimed: when the roll succeeds and no Fire is emitted, for want of
\* a firing solution or of a deviation under 60 degrees, a vessel below
\* level_ambition with an eligible upgrade emits an Upgrade to one of the
\* eligible options; the second command is absent only if the roll fails or
\* neither a Fire nor an eligible upgrade is available.
C8_UpgradeWheneverNoFire ==
    AliveCall =>
      /\ (rolled /\ ~Fired /\ OwnData.level < level_ambition /\ Eligible # {})
           => (Upgraded /\ ret[2].entity_type \in Eligible)
      /\ Len(ret) = 1 =>
           \/ ~rolled
           \/ /\ ~(IsSome(best_firing_solution) /\ Best.angle_diff < SixtyDegrees)
              /\ ~(OwnData.level < level_ambition /\ Eligible # {})

\* C8 as amended: the Upgrade is emitted only when there is no firing
\* solution at all; a firing solution whose deviation is not under 60 degrees
\* leaves the call without a second command.
C8_UpgradeOnlyWithoutSolution ==
    AliveCall =>
      /\ (rolled /\ best_firing_solution = None
            /\ OwnData.level < level_ambition /\ Eligible # {})
           => (Upgraded /\ ret[2].entity_type \in Eligible)
      /\ Upgraded =>
           /\ rolled
           /\ best_firing_solution = None
           /\ OwnData.level < level_ambition
           /\ ret[2].entity_type \in Eligible
      /\ Len(ret) = 1 <=>
           \/ ~rolled
           \/ IsSome(best_firing_solution) /\ ~(Best.angle_diff < SixtyDegrees)
           \/ /\ best_firing_solution = None
              /\ ~(OwnData.level < level_ambition /\ Eligible # {})

\* An Upgrade is emitted.
C8_Witness == AliveCall /\ Upgraded /\ rolled /\ best_firing_solution = None

\* The contacts the scan classifies that are not friendly.
ScannedHostile ==
    {k \in 2 .. Len(contacts) :
        /\ contacts[k].id # Own.id
        /\ IsSome(contacts[k].entity_type)
        /\ contacts[k].player_id # Some(Me)}
DataOf(k) == EntityData(Unwrap(contacts[k].entity_type))
RepelTerm(k) ==
    Term("over", VecNeg(VecSub(contacts[k].position, Own.position)),
         1 + LengthSquared(VecSub(contacts[k].position, Own.position)))
Terms == {movement[n] : n \in 1 .. Len(movement)}
SpringAfter(k) ==
    \E j \in k + 1 .. Len(contacts) :
        /\ contacts[j].id # Own.id
        /\ IsOwnBoat(contacts[j], Me)

Candidates ==
    {k \in ScannedHostile :
        \/ DataOf(k).kind \in {"Boat", "Aircraft"}
        \/ DataOf(k).kind = "Weapon" /\ DataOf(k).sub_kind = "Missile"}
DistanceSquared(k) == LengthSquared(VecSub(contacts[k].position, Own.position))
Nearest ==
    CHOOSE k \in Candidates : \A j \in Candidates :
        \/ DistanceSquared(k) < DistanceSquared(j)
        \/ DistanceSquared(k) = DistanceSquared(j) /\ k <= j

\* C10: after the scan the nearest hostile is absent iff no contact is a
\* candidate (not self, not friendly, of resolvable type, and a Boat, an
\* Aircraft or a Weapon of sub-kind Missile), and otherwise it is the
\* earliest contact in scan order of least squared distance to self among
\* the candidates.
C10_NearestHostile ==
    AliveCall =>
      IF Candidates = {}
      THEN closest_enemy = None
      ELSE closest_enemy = Some([contact |-> contacts[Nearest],
                                 distance_squared |-> DistanceSquared(Nearest)])

\* Two different candidates are equally near and nearest; the earlier is kept.
C10_Witness ==
    /\ AliveCall
    /\ \E j \in Candidates : \E k \in Candidates :
         /\ j < k
         /\ contacts[j] # contacts[k]
         /\ DistanceSquared(j) = DistanceSquared(k)
         /\ j = Nearest
         /\ closest_enemy = Some([contact |-> contacts[j],
                                  distance_squared |-> DistanceSquared(j)])

====
